---- MODULE Spec2Model ----
(***************************************************************************)
(* Model of src/Adobe/CreativeCloudFeed.py: one run of                     *)
(* CreativeCloudFeed.main() over a feed document.                          *)
(*                                                                         *)
(* Python values are represented as follows.                               *)
(*  - A dict is a record with a field "keys" (the set of keys present) and *)
(*    one field per key the code reads; the value of an absent key is a    *)
(*    fixed filler that no definition reads.                               *)
(*  - A string the code takes apart (split, LooseVersion) is a tuple of    *)
(*    one-character strings; a string the code only copies, compares or    *)
(*    concatenates is a TLA+ string.                                       *)
(*  - None is the marker None.                                             *)
(***************************************************************************)
EXTENDS Integers, Sequences, FiniteSets, TLC

VARIABLES
    feed,                \* data: the decoded feed document the server holds
    env,                 \* self.env: the inputs and the output fields
    env0,                \* self.env as it was when main() was entered
    pc,                  \* position of main()
    outcome,             \* "running", "ok", or the exception main() ended with
    channel_cdn,         \* the dict channel_cdn of main()
    product,             \* the local variable product of main()
    ci,                  \* index of the channel the selection loop is at
    pi,                  \* index of the product the loop looks at next (0: channel not entered)
    first_platform,      \* the local variable first_platform of main()
    compatibility_range, \* the local variable compatibility_range of main()
    manifest_doc,        \* what the manifest request returned ("none" before it)
    requests             \* the network requests made so far, in order

vars == <<feed, env, env0, pc, outcome, channel_cdn, product, ci, pi, first_platform,
          compatibility_range, manifest_doc, requests>>

-----------------------------------------------------------------------------
(* Bounds of the input space *)

\* Largest number of products in a feed document (all channels together).
MaxProducts == 2

\* Largest number of platforms of a product.
MaxPlatforms == 2

-----------------------------------------------------------------------------
(* Strings *)

None == "<None>"

CCM == <<"c", "c", "m">>
STI == <<"s", "t", "i">>
OSX10 == <<"o", "s", "x", "1", "0">>
OSX10_64 == <<"o", "s", "x", "1", "0", "-", "6", "4">>
WIN32 == <<"w", "i", "n", "3", "2">>
Latest == <<"l", "a", "t", "e", "s", "t">>
V1_0 == <<"1", ".", "0">>
V1_9 == <<"1", ".", "9">>
V1_10 == <<"1", ".", "1", "0">>
CompatRange == <<"1", "0", ".", "1", "2", "-", "9", "9", ".", "0">>

\* string.split(s, sep) for a one-character separator: the pieces between the
\* separators, empty pieces kept.
RECURSIVE SplitFrom(_, _, _, _)
SplitFrom(s, sep, i, cur) ==
    IF i > Len(s) THEN <<cur>>
    ELSE IF s[i] = sep THEN <<cur>> \o SplitFrom(s, sep, i + 1, <<>>)
    ELSE SplitFrom(s, sep, i + 1, Append(cur, s[i]))

Split(s, sep) == SplitFrom(s, sep, 1, <<>>)

\* x in list
InList(x, list) == \E i \in DOMAIN list : list[i] = x

DigitValue(c) ==
    CASE c = "0" -> 0 [] c = "1" -> 1 [] c = "2" -> 2 [] c = "3" -> 3
      [] c = "4" -> 4 [] c = "5" -> 5 [] c = "6" -> 6 [] c = "7" -> 7
      [] c = "8" -> 8 [] c = "9" -> 9

\* int(digits)
RECURSIVE ToInt(_)
ToInt(digits) ==
    IF digits = <<>> THEN 0
    ELSE 10 * ToInt(SubSeq(digits, 1, Len(digits) - 1)) + DigitValue(digits[Len(digits)])

\* LooseVersion.parse for a version string of digits and dots: the runs of
\* digits, each converted to an integer (empty pieces and the dots dropped).
LVParse(v) ==
    LET pieces == SelectSeq(Split(v, "."), LAMBDA p : p # <<>>)
    IN  [i \in 1..Len(pieces) |-> ToInt(pieces[i])]

\* cmp(a, b) of two lists of integers: the first differing element decides,
\* and a proper prefix is the smaller one.
RECURSIVE CmpList(_, _)
CmpList(a, b) ==
    IF a = <<>> /\ b = <<>> THEN 0
    ELSE IF a = <<>> THEN -1
    ELSE IF b = <<>> THEN 1
    ELSE IF Head(a) < Head(b) THEN -1
    ELSE IF Head(a) > Head(b) THEN 1
    ELSE CmpList(Tail(a), Tail(b))

\* LooseVersion(a) > LooseVersion(b): "True" or "False", or the exception it
\* raises.  LooseVersion.__init__ does not parse an empty string, so the
\* instance has no attribute version and the comparison raises
\* AttributeError.
LVGreater(a, b) ==
    IF a = <<>> \/ b = <<>> THEN "AttributeError"
    ELSE IF CmpList(LVParse(a), LVParse(b)) = 1 THEN "True"
    ELSE "False"

\* '{}'.format(x) of a string or None
Format(x) == IF x = None THEN "None" ELSE x

-----------------------------------------------------------------------------
(* The feed document *)

NoUrls == [keys |-> {}, manifestURL |-> ""]

LanguageSet(hasBase, urlKeys) ==
    [keys |-> (IF hasBase THEN {"baseVersion"} ELSE {}) \cup
              (IF "urls" \in urlKeys THEN {"urls"} ELSE {}),
     baseVersion |-> IF hasBase THEN "B" ELSE "",
     urls |-> IF urlKeys = {"urls", "manifestURL"}
              THEN [keys |-> {"manifestURL"}, manifestURL |-> "/products/x/manifest.xml"]
              ELSE NoUrls]

Platform(id, packageType, ls) ==
    [keys |-> {"id", "packageType", "systemCompatibility", "languageSet"},
     id |-> id, packageType |-> packageType, range |-> CompatRange,
     languageSet |-> <<ls>>]

\* first_platform = {}
EmptyPlatform ==
    [keys |-> {}, id |-> <<>>, packageType |-> "", range |-> <<>>, languageSet |-> <<>>]

Icons96 == <<[size |-> "32x32", value |-> "icon32"], [size |-> "96x96", value |-> "icon96"],
             [size |-> "96x96", value |-> "icon96b"]>>

Product(id, hasVersion, version, platforms, icons) ==
    [keys |-> {"id", "displayName", "productInfoPage", "platforms"} \cup
              (IF hasVersion THEN {"version"} ELSE {}) \cup
              (IF icons # <<>> THEN {"productIcons"} ELSE {}),
     id |-> id, displayName |-> "", productInfoPage |-> "info/" \o id,
     version |-> IF hasVersion THEN version ELSE <<>>,
     platforms |-> platforms, icons |-> icons]

\* product = {'version': '1.0'}
Sentinel ==
    [keys |-> {"version"}, id |-> "", displayName |-> "", productInfoPage |-> "",
     version |-> V1_0, platforms |-> <<>>, icons |-> <<>>]

Channel(name, hasCdn, products) ==
    [keys |-> {"name", "products"} \cup (IF hasCdn THEN {"cdn"} ELSE {}),
     name |-> name,
     cdn |-> [secure |-> IF hasCdn THEN "https://cdn.example" ELSE ""],
     products |-> products]

\* channel.get('cdn')
NoneCdn == [isNone |-> TRUE, secure |-> ""]
GetCdn(channel) ==
    IF "cdn" \in channel.keys THEN [isNone |-> FALSE, secure |-> channel.cdn.secure]
    ELSE NoneCdn

-----------------------------------------------------------------------------
(* The inputs of a run: feed documents and configurations *)

SeqsUpTo(S, n) == UNION {[1..k -> S] : k \in 0..n}

RECURSIVE TotalLen(_, _)
TotalLen(ps, c) == IF c = 0 THEN 0 ELSE TotalLen(ps, c - 1) + Len(ps[c])

\* The products ps[c] of channel c, each given a display name of its own.
Named(ps, c) ==
    [k \in 1..Len(ps[c]) |->
        [ps[c][k] EXCEPT !.displayName = "N" \o ToString(TotalLen(ps, c - 1) + k)]]

\* data['channel'] with the channel names of layout, the products ps[c] in
\* channel c, and a cdn entry in channel c iff cdns[c].
MkFeed(layout, cdns, ps) ==
    [c \in 1..Len(layout) |-> Channel(layout[c], cdns[c], Named(ps, c))]

ChannelLayouts == {<<CCM, STI>>, <<STI, CCM>>}

HdPlatform(hasBase) == Platform(OSX10, "hd", LanguageSet(hasBase, {"urls", "manifestURL"}))

\* Feeds that exercise the selection loop: up to MaxProducts products spread
\* over two channels (either of which may be empty), differing in id, version
\* (absent, empty, or one of three version strings) and base version.
SelProducts ==
    {Product("Q", TRUE, V1_9, <<HdPlatform(TRUE)>>, <<>>)} \cup
    {Product("P", FALSE, <<>>, <<HdPlatform(hb)>>, <<>>) : hb \in BOOLEAN} \cup
    {Product("P", TRUE, v, <<HdPlatform(hb)>>, <<>>) : v \in {V1_0, V1_9, V1_10}, hb \in BOOLEAN} \cup
    {Product("P", TRUE, <<>>, <<HdPlatform(TRUE)>>, <<>>)}

SelFeeds ==
    UNION {{MkFeed(layout, [c \in 1..Len(layout) |-> TRUE], ps) :
              ps \in {q \in [1..Len(layout) -> SeqsUpTo(SelProducts, MaxProducts)] :
                        TotalLen(q, Len(layout)) <= MaxProducts}} :
           layout \in ChannelLayouts}

\* Feeds that exercise platform matching and field extraction: one product
\* with up to MaxPlatforms platforms, in a feed with or without a "ccm"
\* channel and a cdn entry.
ExtPlatforms ==
    {Platform(WIN32, "hd", LanguageSet(TRUE, {"urls", "manifestURL"}))} \cup
    {Platform(OSX10, t, LanguageSet(TRUE, u)) :
        t \in {"RIBS", "hd"}, u \in {{}, {"urls"}, {"urls", "manifestURL"}}}

ExtProducts ==
    {Product("P", TRUE, V1_9, pl, ic) :
        pl \in SeqsUpTo(ExtPlatforms, MaxPlatforms) \ {<<>>}, ic \in {<<>>, Icons96}}

ExtSkeletons ==
    {<<[name |-> CCM, cdn |-> TRUE], [name |-> STI, cdn |-> TRUE]>>,
     <<[name |-> CCM, cdn |-> FALSE], [name |-> STI, cdn |-> TRUE]>>,
     <<[name |-> STI, cdn |-> TRUE]>>}

ExtFeeds ==
    UNION {{MkFeed([c \in 1..Len(sk) |-> sk[c].name], [c \in 1..Len(sk) |-> sk[c].cdn],
                   [c \in 1..Len(sk) |-> IF c = at THEN <<p>> ELSE <<>>]) :
              at \in 1..Len(sk), p \in ExtProducts} :
           sk \in ExtSkeletons}

Unset == "<unset>"
UnsetSeq == <<"<unset>">>

\* self.env before main() runs: the input variables, no output variable set.
InitEnv(base_version, version, channels, parse_proxy_xml) ==
    [product_id |-> "P", base_version |-> base_version, version |-> version,
     channels |-> channels, platforms |-> OSX10 \o <<",">> \o OSX10_64,
     parse_proxy_xml |-> parse_proxy_xml,
     manifest_url |-> Unset, minimum_os_version |-> UnsetSeq,
     product_info_url |-> Unset, display_name |-> Unset, icon_url |-> Unset]

ChannelArgs == {CCM \o <<",">> \o STI, CCM, STI}

SelEnvs ==
    {InitEnv(b, v, ch, FALSE) :
        b \in {None, "B"}, v \in {Latest, V1_9, V1_0}, ch \in ChannelArgs \ {CCM}}

ExtEnvs == {InitEnv(None, Latest, ch, x) : ch \in ChannelArgs, x \in BOOLEAN}

-----------------------------------------------------------------------------
(* main() *)

Init ==
    /\ \/ feed \in SelFeeds /\ env \in SelEnvs
       \/ feed \in ExtFeeds /\ env \in ExtEnvs
    /\ env0 = env
    /\ pc = "fetch"
    /\ outcome = "running"
    /\ channel_cdn = <<>>
    /\ product = Sentinel
    /\ ci = 0
    /\ pi = 0
    /\ first_platform = EmptyPlatform
    /\ compatibility_range = <<>>
    /\ manifest_doc = "none"
    /\ requests = <<>>

\* channels = string.split(self.env.get('channels'), ',')
channels == Split(env.channels, ",")
\* platforms = string.split(self.env.get('platforms'), ',')
platforms == Split(env.platforms, ",")

Raise(e) == pc' = "end" /\ outcome' = e

\* data = self.fetch(channels, platforms): one GET of the feed URL; urlopen
\* or json.loads may raise.
Fetch ==
    /\ pc = "fetch"
    /\ requests' = Append(requests, "feed")
    /\ \E r \in {"ok", "TransportError", "ParseError"} :
          IF r = "ok" THEN pc' = "cdn" /\ outcome' = outcome ELSE Raise(r)
    /\ UNCHANGED <<feed, env0, env, channel_cdn, product, ci, pi, first_platform,
                   compatibility_range, manifest_doc>>

\* The dict channel_cdn after the first loop over data['channel'] has
\* looked at the first n channels (a later channel of the same name
\* overwrites an earlier one).
RECURSIVE ChannelCdn(_, _, _)
ChannelCdn(data, wanted, n) ==
    IF n = 0 THEN <<>>
    ELSE LET before == ChannelCdn(data, wanted, n - 1)
         IN  IF InList(data[n].name, wanted)
             THEN [k \in DOMAIN before \cup {data[n].name} |->
                     IF k = data[n].name THEN GetCdn(data[n]) ELSE before[k]]
             ELSE before

RecordCdn ==
    /\ pc = "cdn"
    /\ channel_cdn' = ChannelCdn(feed, channels, Len(feed))
    /\ product' = Sentinel
    /\ ci' = 1
    /\ pi' = 0
    /\ pc' = "select"
    /\ UNCHANGED <<feed, env0, env, outcome, first_platform, compatibility_range,
                   manifest_doc, requests>>

\* prod['platforms']['platform'][0]['languageSet'][0].get('baseVersion')
FirstBaseVersion(prod) ==
    LET ls == prod.platforms[1].languageSet[1]
    IN  IF "baseVersion" \in ls.keys THEN ls.baseVersion ELSE None

\* bool(base_version)
Truthy(x) == x # None /\ x # ""

\* The three filters of the loop body: the product passes when none of the
\* `continue` statements is taken.
PassesFilters(prod, product_id, base_version) ==
    /\ prod.id = product_id
    /\ ~(Truthy(base_version) /\ FirstBaseVersion(prod) # base_version)
    /\ "version" \in prod.keys

\* Whether the loop body assigns product = prod for a product that passed
\* the filters.
Replaces(prod, best, version) ==
    IF version = Latest
    THEN LVGreater(prod.version, best.version) = "True"
    ELSE prod.version = version

\* Whether the loop body raises on prod: the comparison of line 180, reached
\* by a product that passed the filters when the version asked for is
\* "latest", raises AttributeError.
SelectRaises(prod, best) ==
    /\ PassesFilters(prod, env.product_id, env.base_version)
    /\ env.version = Latest
    /\ LVGreater(prod.version, best.version) = "AttributeError"

\* Variant of Select without the base version filter of line 171.
SelectNoBaseCheck(prod, best) ==
    IF prod.id = env.product_id /\ "version" \in prod.keys
       /\ Replaces(prod, best, env.version)
    THEN prod
    ELSE best

\* The value of product after the loop body has run on prod.
Select(prod, best) ==
    IF PassesFilters(prod, env.product_id, env.base_version)
       /\ Replaces(prod, best, env.version)
    THEN prod
    ELSE best

\* The head of the outer loop: a channel that is not requested is skipped
\* (as is, by the inner loop, one without products).
NextChannel ==
    /\ pc = "select"
    /\ ci <= Len(feed)
    /\ pi = 0
    /\ IF InList(feed[ci].name, channels) /\ feed[ci].products # <<>>
       THEN ci' = ci /\ pi' = 1
       ELSE ci' = ci + 1 /\ pi' = 0
    /\ UNCHANGED <<feed, env0, env, pc, outcome, channel_cdn, product, first_platform,
                   compatibility_range, manifest_doc, requests>>

\* One iteration of the inner loop.
SelectStep ==
    /\ pc = "select"
    /\ ci <= Len(feed)
    /\ pi >= 1
    /\ IF SelectRaises(feed[ci].products[pi], product)
       THEN /\ Raise("AttributeError")
            /\ UNCHANGED <<product, ci, pi>>
       ELSE /\ product' = Select(feed[ci].products[pi], product)
            /\ IF pi < Len(feed[ci].products)
               THEN ci' = ci /\ pi' = pi + 1
               ELSE ci' = ci + 1 /\ pi' = 0
            /\ UNCHANGED <<pc, outcome>>
    /\ UNCHANGED <<feed, env0, env, channel_cdn, first_platform,
                   compatibility_range, manifest_doc, requests>>

\* Variant of NoMatch that tests the key 'version'.
NoMatchVersionKey(best) == "version" \notin best.keys

\* if 'platforms' not in product: raise ProcessorError('No package matched ...')
NoMatch(best) == "platforms" \notin best.keys

PostLoop ==
    /\ pc = "select"
    /\ ci > Len(feed)
    /\ IF NoMatch(product)
       THEN Raise("NoMatchError")
       ELSE pc' = "platform" /\ outcome' = outcome
    /\ UNCHANGED <<feed, env0, env, channel_cdn, product, ci, pi, first_platform,
                   compatibility_range, manifest_doc, requests>>

\* Variant of FirstPlatform for a loop without the break of line 195.
LastPlatform(plats, wanted) ==
    LET hits == {i \in DOMAIN plats : InList(plats[i].id, wanted)}
    IN  IF hits = {} THEN EmptyPlatform
        ELSE plats[CHOOSE i \in hits : \A j \in hits : j <= i]

\* The first platform of plats whose id is in wanted; {} when there is none.
FirstPlatform(plats, wanted) ==
    LET hits == {i \in DOMAIN plats : InList(plats[i].id, wanted)}
    IN  IF hits = {} THEN EmptyPlatform
        ELSE plats[CHOOSE i \in hits : \A j \in hits : i <= j]

\* first_platform.get('packageType') == 'RIBS'
IsRIBS(platform) == "packageType" \in platform.keys /\ platform.packageType = "RIBS"

\* Variant of MatchPlatform in which the assignments of lines 221-222 run
\* ahead of the package type check.
MatchPlatformAfterWrite ==
    /\ pc = "platform"
    /\ first_platform' = FirstPlatform(product.platforms, platforms)
    /\ env' = [env EXCEPT !.version = product.version,
                          !.display_name = product.displayName]
    /\ IF IsRIBS(first_platform')
       THEN Raise("UnsupportedPackageError")
       ELSE pc' = "extract" /\ outcome' = outcome
    /\ UNCHANGED <<feed, env0, channel_cdn, product, ci, pi, compatibility_range,
                   manifest_doc, requests>>

\* Lines 191-198.
MatchPlatform ==
    /\ pc = "platform"
    /\ first_platform' = FirstPlatform(product.platforms, platforms)
    /\ IF IsRIBS(first_platform')
       THEN Raise("UnsupportedPackageError")
       ELSE pc' = "extract" /\ outcome' = outcome
    /\ UNCHANGED <<feed, env0, env, channel_cdn, product, ci, pi, compatibility_range,
                   manifest_doc, requests>>

\* The exception lines 202-208 raise, "none" when they raise none:
\* first_platform['systemCompatibility'] on {} is a KeyError,
\* channel_cdn['ccm'] without that key is a KeyError, and None['secure'] is
\* a TypeError.
ExtractError(platform, cdn) ==
    IF "systemCompatibility" \notin platform.keys THEN "KeyError"
    ELSE IF "urls" \notin platform.languageSet[1].keys THEN "none"
    ELSE IF CCM \notin DOMAIN cdn THEN "KeyError"
    ELSE IF cdn[CCM].isNone THEN "TypeError"
    ELSE "none"

\* '{}{}'.format(channel_cdn['ccm']['secure'], urls.get('manifestURL'))
ManifestUrl(platform, cdn) ==
    LET urls == platform.languageSet[1].urls
    IN  cdn[CCM].secure \o
        Format(IF "manifestURL" \in urls.keys THEN urls.manifestURL ELSE None)

\* Lines 200-214, up to the call of fetch_manifest.  Line 202 binds
\* compatibility_range before lines 205-208 can raise, so only the KeyError
\* of line 202 itself leaves it unbound.
Extract ==
    /\ pc = "extract"
    /\ compatibility_range' =
          IF "systemCompatibility" \in first_platform.keys
          THEN first_platform.range
          ELSE compatibility_range
    /\ LET e == ExtractError(first_platform, channel_cdn)
       IN  IF e # "none"
           THEN /\ Raise(e)
                /\ env' = env
           ELSE /\ outcome' = outcome
                /\ outcome' = outcome
                /\ IF "urls" \in first_platform.languageSet[1].keys
                   THEN /\ env' = [env EXCEPT !.manifest_url =
                                       ManifestUrl(first_platform, channel_cdn)]
                        /\ pc' = IF env.parse_proxy_xml THEN "manifest" ELSE "outputs"
                   ELSE /\ env' = env
                        /\ pc' = "outputs"
    /\ UNCHANGED <<feed, env0, channel_cdn, product, ci, pi, first_platform,
                   manifest_doc, requests>>

ManifestReplies == {"TransportError", "malformed", "with_proxy_data", "without_proxy_data"}

\* How fetch_manifest ends once urlopen has answered with reply: a failed
\* request and a malformed body raise; on a well-formed body
\* ElementTree.fromstring returns an Element, which has no getroot(), so
\* line 132 raises AttributeError before proxy_data is looked up and
\* fetch_proxy_data is never called.
FetchManifestOutcome(reply) ==
    CASE reply = "TransportError" -> "TransportError"
      [] reply = "malformed" -> "ParseError"
      [] OTHER -> "AttributeError"

\* self.fetch_manifest(self.env['manifest_url'])
FetchManifest ==
    /\ pc = "manifest"
    /\ requests' = Append(requests, "manifest")
    /\ \E reply \in ManifestReplies :
          /\ manifest_doc' = reply
          /\ Raise(FetchManifestOutcome(reply))
    /\ UNCHANGED <<feed, env0, env, channel_cdn, product, ci, pi, first_platform,
                   compatibility_range>>

\* The value of the first icon with size '96x96'; Unset (no assignment)
\* when the product has no productIcons or none of that size.
IconUrl(prod, old) ==
    IF "productIcons" \notin prod.keys THEN old
    ELSE LET hits == {i \in DOMAIN prod.icons : prod.icons[i].size = "96x96"}
         IN  IF hits = {} THEN old
             ELSE prod.icons[CHOOSE i \in hits : \A j \in hits : i <= j].value

\* Lines 219-228.
WriteOutputs ==
    /\ pc = "outputs"
    /\ env' = [env EXCEPT
                 !.minimum_os_version = Split(compatibility_range, "-")[1],
                 !.product_info_url = product.productInfoPage,
                 !.version = product.version,
                 !.display_name = product.displayName,
                 !.icon_url = IconUrl(product, env.icon_url)]
    /\ pc' = "end"
    /\ outcome' = "ok"
    /\ UNCHANGED <<feed, env0, channel_cdn, product, ci, pi, first_platform,
                   compatibility_range, manifest_doc, requests>>

Next ==
    \/ Fetch
    \/ RecordCdn
    \/ NextChannel
    \/ SelectStep
    \/ PostLoop
    \/ MatchPlatform
    \/ Extract
    \/ FetchManifest
    \/ WriteOutputs

Spec == Init /\ [][Next]_vars

-----------------------------------------------------------------------------
(* Vocabulary of the properties, stated on the feed and the configuration   *)
(* the run was given (env0), independently of the loop's own definitions.   *)

\* The positions <<channel, product>> of the products in requested channels.
RequestedPositions ==
    UNION {{<<c, k>> : k \in 1..Len(feed[c].products)} :
           c \in {d \in 1..Len(feed) : InList(feed[d].name, Split(env0.channels, ","))}}

At(p) == feed[p[1]].products[p[2]]

\* Iteration order: channels in feed order, products in channel order.
Earlier(p, q) == p[1] < q[1] \/ (p[1] = q[1] /\ p[2] < q[2])

\* The loop body has run on position p.
Visited(p) == p[1] < ci \/ (p[1] = ci /\ p[2] < pi)

LoopDone == ci > Len(feed)

MeetsBaseVersion(prod) ==
    \/ env0.base_version = None
    \/ /\ "baseVersion" \in prod.platforms[1].languageSet[1].keys
       /\ prod.platforms[1].languageSet[1].baseVersion = env0.base_version

\* The candidates: requested channel, requested id, base version constraint
\* met, version field present.
Candidates ==
    {p \in RequestedPositions :
        /\ At(p).id = env0.product_id
        /\ "version" \in At(p).keys
        /\ MeetsBaseVersion(At(p))}

\* Dotted-version order of the version strings that occur in feeds:
\* 1.0 < 1.9 < 1.10, and the empty string, which has no component, below them.
VersionRank(v) == CASE v = <<>> -> -1 [] v = V1_0 -> 0 [] v = V1_9 -> 1 [] v = V1_10 -> 2

MaxCandidates == {p \in Candidates : \A q \in Candidates :
                      VersionRank(At(q).version) <= VersionRank(At(p).version)}

OutputsUntouched ==
    /\ env.manifest_url = env0.manifest_url
    /\ env.minimum_os_version = env0.minimum_os_version
    /\ env.product_info_url = env0.product_info_url
    /\ env.version = env0.version
    /\ env.display_name = env0.display_name
    /\ env.icon_url = env0.icon_url

Crashed == outcome \in {"KeyError", "TypeError", "AttributeError"}

-----------------------------------------------------------------------------
(* C1 *)

\* C1: with version = "latest", once the selection loop is over and at least
\* one candidate exists, the product carried out of the loop is a candidate
\* of maximum dotted version and the run has not failed with NoMatchError.
\* The code violates this: a candidate whose version is not greater than the
\* sentinel "1.0" never replaces the sentinel.
C1_LatestSelectsMaximum ==
    (env0.version = Latest /\ LoopDone /\ Candidates # {}) =>
        /\ \E p \in MaxCandidates : product = At(p)
        /\ outcome # "NoMatchError"

-----------------------------------------------------------------------------
(* C2 *)

ExactMatches == {p \in Candidates : At(p).version = env0.version}

\* C2: with an exact version requested, the product carried out of the loop
\* is the first candidate in iteration order whose version string equals the
\* requested one.  The code violates this: every later exact match replaces
\* the earlier one, so the last one is carried out.
C2_ExactSelectsFirst ==
    (env0.version # Latest /\ LoopDone /\ ExactMatches # {}) =>
        \E p \in ExactMatches :
            /\ product = At(p)
            /\ \A q \in ExactMatches : ~Earlier(q, p)

-----------------------------------------------------------------------------
(* C3 *)

NoIdMatch == \A p \in RequestedPositions : At(p).id # env0.product_id

NoExactMatch == env0.version # Latest /\ ExactMatches = {}

\* C3: if no product of a requested channel has the requested id, or an
\* exact version is requested that no candidate carries, then the loop does
\* not raise, and after the loop the run can only be about to raise, or have
\* raised, NoMatchError: it never reaches platform matching, and no output
\* field is written.
C3_NoMatchError ==
    (NoIdMatch \/ NoExactMatch) =>
        /\ outcome \in {"running", "TransportError", "ParseError", "NoMatchError"}
        /\ LoopDone =>
              /\ pc = "select" \/ (pc = "end" /\ outcome = "NoMatchError")
              /\ first_platform = EmptyPlatform
              /\ OutputsUntouched

\* An exact version no candidate carries, although products of the requested
\* id exist: the run has ended with NoMatchError.
C3_Witness ==
    /\ pc = "end"
    /\ outcome = "NoMatchError"
    /\ NoExactMatch
    /\ ~NoIdMatch

-----------------------------------------------------------------------------
(* C4 *)

\* The first platform of the selected product whose id is requested has
\* package type RIBS.
FirstRequestedIsRIBS ==
    \E i \in DOMAIN product.platforms :
        /\ InList(product.platforms[i].id, Split(env0.platforms, ","))
        /\ \A j \in 1..(i - 1) :
              ~InList(product.platforms[j].id, Split(env0.platforms, ","))
        /\ product.platforms[i].packageType = "RIBS"

Selected == LoopDone /\ "platforms" \in product.keys

\* C4: once a product is selected whose first requested platform is RIBS,
\* the run can only be about to raise, or have raised,
\* UnsupportedPackageError, and no output field is written.
C4_RIBSUnsupported ==
    (Selected /\ FirstRequestedIsRIBS) =>
        /\ pc \in {"select", "platform"}
           \/ (pc = "end" /\ outcome = "UnsupportedPackageError")
        /\ OutputsUntouched

\* The run ended with UnsupportedPackageError on a product that also has a
\* requested platform that is not RIBS.
C4_Witness ==
    /\ outcome = "UnsupportedPackageError"
    /\ FirstRequestedIsRIBS
    /\ \E i \in DOMAIN product.platforms :
          /\ InList(product.platforms[i].id, Split(env0.platforms, ","))
          /\ product.platforms[i].packageType # "RIBS"

-----------------------------------------------------------------------------
(* C5 *)

NoRequestedPlatform ==
    \A i \in DOMAIN product.platforms :
        ~InList(product.platforms[i].id, Split(env0.platforms, ","))

\* C5: when a product is selected and none of its platforms is requested,
\* the run does not end in an unhandled lookup failure.  The code violates
\* this: first_platform stays {} and first_platform['systemCompatibility']
\* raises KeyError.
C5_NoPlatformNoCrash ==
    (Selected /\ NoRequestedPlatform /\ pc = "end") => ~Crashed

-----------------------------------------------------------------------------
(* C6 *)

\* The run has gone through field extraction (lines 200-214) with a matched
\* platform.
PastExtraction ==
    /\ Selected
    /\ pc \in {"manifest", "outputs", "end"}
    /\ first_platform # EmptyPlatform
    /\ ~IsRIBS(first_platform)

HasManifestFragment ==
    /\ "urls" \in first_platform.languageSet[1].keys
    /\ "manifestURL" \in first_platform.languageSet[1].urls.keys

\* The cdn secure base URLs of the feed's "ccm" channels.
CcmSecure == {feed[c].cdn.secure : c \in {d \in 1..Len(feed) :
                  feed[d].name = CCM /\ "cdn" \in feed[d].keys}}

\* C6: after field extraction, for every requested channel set, the run has
\* not crashed; manifest_url is the "ccm" secure base URL followed by the
\* manifest URL fragment when the matched platform's first language-set has
\* one, and is unset otherwise.  The code violates this: it raises KeyError
\* when "ccm" is not among the recorded channels, TypeError when the "ccm"
\* channel has no cdn entry, and sets manifest_url to the base URL followed
\* by "None" when urls has no manifestURL entry.
C6_ManifestUrl ==
    PastExtraction =>
        /\ outcome \notin {"KeyError", "TypeError"}
        /\ IF HasManifestFragment
           THEN \A base \in CcmSecure :
                   env.manifest_url = base \o first_platform.languageSet[1].urls.manifestURL
           ELSE env.manifest_url = Unset

-----------------------------------------------------------------------------
(* C7 *)

\* C7: at every step the current best product is the sentinel or a
\* candidate: a product of a requested channel with the requested id, a
\* version field and, under a base version constraint, that base version.
C7_BestIsSentinelOrCandidate ==
    product = Sentinel \/ \E p \in Candidates : product = At(p)

\* Under a base version constraint a product is selected although the loop
\* has also run on a product of the requested id and channel that lacks the
\* base version, and the feed has a product of the requested id in a channel
\* that is not requested.
C7_Witness ==
    /\ product # Sentinel
    /\ env0.base_version = "B"
    /\ \/ \E p \in RequestedPositions :
             /\ Visited(p)
             /\ At(p).id = env0.product_id
             /\ "version" \in At(p).keys
             /\ ~MeetsBaseVersion(At(p))
       \/ \E c \in 1..Len(feed) :
             /\ c < ci
             /\ ~InList(feed[c].name, Split(env0.channels, ","))
             /\ \E k \in 1..Len(feed[c].products) :
                   feed[c].products[k].id = env0.product_id

-----------------------------------------------------------------------------
(* C8 *)

\* With "latest", a step of the loop changes the current best only to the
\* product it is looking at, and only if that product's dotted version is
\* strictly greater.
C8_Step ==
    (env0.version = Latest /\ pc = "select" /\ product' # product) =>
        /\ pi >= 1
        /\ product' = feed[ci].products[pi]
        /\ VersionRank(product'.version) > VersionRank(product.version)

\* With "latest", after the loop, whenever candidates exist, the product
\* selected is the first candidate, in iteration order, among those tied for
\* the maximum.
C8_FirstOfTied ==
    (env0.version = Latest /\ LoopDone /\ Candidates # {}) =>
        \E p \in MaxCandidates :
            /\ product = At(p)
            /\ \A q \in MaxCandidates : ~Earlier(q, p)

\* C8: with version = "latest" the current best is replaced only by a
\* candidate of strictly greater dotted version (so its version never
\* decreases and an equal version never replaces it), and the product
\* selected is the first, in iteration order, of the candidates tied for the
\* maximum.  The code violates the last part when the maximum is not greater
\* than the sentinel "1.0": no candidate then replaces the sentinel, and none
\* of the tied candidates is selected.
C8_StrictReplacement == [][C8_Step]_vars /\ []C8_FirstOfTied

-----------------------------------------------------------------------------
(* C9 *)

\* C9: the feed request comes first; the manifest request is made iff
\* parse_proxy_xml is set and a manifest URL was derived; and when the
\* manifest request returns a document with a proxy_data element, the proxy
\* document is requested next and the run goes on to write the remaining
\* output fields.  The code violates the last part: fetch_manifest raises
\* AttributeError (Element has no getroot) before it reads proxy_data.
C9_RequestSequence ==
    /\ requests # <<>> => requests[1] = "feed"
    /\ \A i \in DOMAIN requests : i > 1 => requests[i] # "feed"
    /\ pc = "end" =>
          (InList("manifest", requests) <=>
              (env0.parse_proxy_xml /\ env.manifest_url # Unset))
    /\ (pc = "end" /\ manifest_doc = "with_proxy_data") =>
          /\ requests = <<"feed", "manifest", "proxy">>
          /\ outcome = "ok"

-----------------------------------------------------------------------------
(* C10 *)

\* C10: a run that ended in NoMatchError or UnsupportedPackageError has left
\* every output field as it was when the run started.
C10_ErrorsLeaveOutputs ==
    outcome \in {"NoMatchError", "UnsupportedPackageError"} =>
        /\ OutputsUntouched
        /\ env = env0

\* A run that ended in UnsupportedPackageError after a product was selected.
C10_Witness ==
    /\ pc = "end"
    /\ outcome = "UnsupportedPackageError"
    /\ product # Sentinel
    /\ env = env0

====
